---- MODULE Spec2Model ----
(***************************************************************************)
(* A state-machine model of the random GFA graph generator (src/main.rs).  *)
(* One run of main is modelled statement group by statement group; the     *)
(* pseudo-random generator is a small deterministic generator whose whole  *)
(* output is fixed by its seed, as SmallRng's is.                          *)
(***************************************************************************)
EXTENDS Integers, Sequences, FiniteSets, TLC

\* ---------------------------------------------------------------- bounds
MaxNodes == 2
MaxEdges == 3
MaxSeed == 1

\* ------------------------------------------------------- program constants
MinSeqLen == 5
MaxSeqLen == 15

\* Option<u64>::None for the seed argument.
NoSeed == -1

Seeds == 0..MaxSeed
InputLogLevels == {"info", "trace"}
OutputFiles == {"-", "out.gfa"}

nucleotides == <<"A", "C", "G", "T">>
signs == <<"+", "-">>

VARIABLES
    cfg,         \* the parsed command line (Cli)
    pc,          \* position of main
    status,      \* "Running", "Done", "ConfigError", "IoError", "Panic"
    sink,        \* what `output` wraps: "none", "stdout", "file"
    buffer,      \* lines held by the BufWriter
    dest,        \* lines that reached the destination
    origin,      \* history: which statement emitted each accepted line
    rng,         \* the SmallRng: [state, cursor]
    seedings,    \* history: how many times the generator was seeded
    seed_used,   \* history: the seed given to seed_from_u64
    draws,       \* history: every logical draw, in order, [kind, val]
    diag,        \* the diagnostic stream (stderr)
    node_id,     \* loop variable of the node loop
    i,           \* loop variable of the cycle loop
    edge_count,  \* the local edge_count (the random-edge budget)
    k,           \* iterations done by the random-edge loop
    phases,      \* history: the phases of the run completed so far
    prev         \* history: the outcome of the run before this one, if any

vars == <<cfg, pc, status, sink, buffer, dest, origin, rng, seedings, seed_used,
          draws, diag, node_id, i, edge_count, k, phases, prev>>

\* ------------------------------------------------------------ the logger
LevelRank(l) ==
    CASE l = "off" -> 0 [] l = "error" -> 1 [] l = "warn" -> 2
      [] l = "info" -> 3 [] l = "debug" -> 4 [] l = "trace" -> 5

\* trace!(msg) for each msg of msgs, appended to the diagnostic stream d.
Logged(d, msgs) == IF LevelRank(cfg.log_level) >= LevelRank("trace") THEN d \o msgs ELSE d

\* -------------------------------------------------- the random generator
SeedFromU64(s) == [state |-> (s * 37 + 11) % 256, cursor |-> 0]

Advance(r) == [state |-> (r.state * 5 + 3) % 256, cursor |-> r.cursor + 1]

Raw(r) == Advance(r).state \div 8

\* Uniform::new_inclusive(lo, hi).sample(rng)
UniformSample(r, lo, hi) == [val |-> lo + (Raw(r) % (hi - lo + 1)), rng |-> Advance(r)]

\* slice.choose(rng): the index drawn (1-based) and the generator after it
ChooseIndex(r, arr) == [val |-> 1 + (Raw(r) % Len(arr)), rng |-> Advance(r)]

\* slice.choose_iter(rng).take(n).collect()
RECURSIVE ChooseIterTake(_, _, _)
ChooseIterTake(r, arr, n) ==
    IF n <= 0 THEN [val |-> <<>>, rng |-> r, draws |-> <<>>]
    ELSE LET c == ChooseIndex(r, arr)
             rest == ChooseIterTake(c.rng, arr, n - 1)
         IN [val |-> <<arr[c.val]>> \o rest.val,
             rng |-> rest.rng,
             draws |-> <<[kind |-> "symbol", val |-> c.val]>> \o rest.draws]

random_dna_string(r) ==
    LET length == UniformSample(r, MinSeqLen, MaxSeqLen)
        s == ChooseIterTake(length.rng, nucleotides, length.val)
    IN [val |-> s.val,
        rng |-> s.rng,
        draws |-> <<[kind |-> "length", val |-> length.val]>> \o s.draws]

\* A variant of the loop body that draws each endpoint's sign right after its node.
RandomEdgeDrawsSignAfterNode(r, n) ==
    LET from == UniformSample(r, 1, n)
        from_sign == ChooseIndex(from.rng, signs)
        to == UniformSample(from_sign.rng, 1, n)
        to_sign == ChooseIndex(to.rng, signs)
    IN [from |-> from.val, to |-> to.val,
        from_sign |-> signs[from_sign.val], to_sign |-> signs[to_sign.val],
        rng |-> to_sign.rng,
        draws |-> <<[kind |-> "from", val |-> from.val],
                    [kind |-> "from_sign", val |-> from_sign.val],
                    [kind |-> "to", val |-> to.val],
                    [kind |-> "to_sign", val |-> to_sign.val]>>]

\* The four draws of one iteration of the random-edge loop.
RandomEdgeDraws(r, n) ==
    LET from == UniformSample(r, 1, n)
        to == UniformSample(from.rng, 1, n)
        from_sign == ChooseIndex(to.rng, signs)
        to_sign == ChooseIndex(from_sign.rng, signs)
    IN [from |-> from.val, to |-> to.val,
        from_sign |-> signs[from_sign.val], to_sign |-> signs[to_sign.val],
        rng |-> to_sign.rng,
        draws |-> <<[kind |-> "from", val |-> from.val],
                    [kind |-> "to", val |-> to.val],
                    [kind |-> "from_sign", val |-> from_sign.val],
                    [kind |-> "to_sign", val |-> to_sign.val]>>]

\* ------------------------------------------------------------- the lines
HeaderLine == <<"H", "VN:Z:1.0">>
\* A variant that numbers the nodes from 0.
NodeLineZeroBased(id, sequence) == <<"S", id - 1, sequence>>
NodeLine(id, sequence) == <<"S", id, sequence>>
CycleEdgeLine(a) == <<"L", a, "+", a + 1, "+", "0M">>
CycleCloseLine(n) == <<"L", n, "+", 1, "+", "0M">>
EdgeLine(from, from_sign, to, to_sign) == <<"L", from, from_sign, to, to_sign, "0M">>

\* ---------------------------------------------------------- the BufWriter
\* writeln!(output, line): the line is buffered, or the buffer is first
\* flushed to the destination, or the write fails.
WriteOutcomes(buf, dst, line) ==
    { [ok |-> TRUE, buffer |-> Append(buf, line), dest |-> dst],
      [ok |-> TRUE, buffer |-> <<line>>, dest |-> dst \o buf],
      [ok |-> FALSE, buffer |-> buf, dest |-> dst] }

\* Dropping the BufWriter: the buffer is flushed, or the flush does not
\* happen or fails, which drop ignores.
DropOutcomes(buf, dst) ==
    { [buffer |-> <<>>, dest |-> dst \o buf], [buffer |-> buf, dest |-> dst] }

ErrorMessage(st) ==
    CASE st = "ConfigError" -> "Error: Cannot ensure strong connectivity with fewer edges than nodes."
      [] st = "IoError" -> "Error: io"
      [] st = "Panic" -> "panicked: called Result::unwrap() on an Err value: EmptyRange"
      [] OTHER -> ""

\* A variant that records the error and carries on from the same statement.
TerminateAndCarryOn(st, buf, dst, dg) ==
    /\ status' = st
    /\ pc' = IF st = "Done" THEN "exit" ELSE pc
    /\ \E d \in DropOutcomes(buf, dst) : buffer' = d.buffer /\ dest' = d.dest
    /\ diag' = IF st = "Done" THEN dg ELSE Append(dg, ErrorMessage(st))

\* main returns (Ok, Err through ? or bail!, or a panic): output is dropped.
Terminate(st, buf, dst, dg) ==
    /\ status' = st
    /\ pc' = "exit"
    /\ \E d \in DropOutcomes(buf, dst) : buffer' = d.buffer /\ dest' = d.dest
    /\ diag' = IF st = "Done" THEN dg ELSE Append(dg, ErrorMessage(st))

\* ------------------------------------------------------------------ Init
NoPrev == [status |-> "none", emitted |-> <<>>, varied |-> FALSE]

Configs ==
    [node_count : 0..MaxNodes, edge_count : 0..MaxEdges,
     ensure_strongly_connected : BOOLEAN, seed : Seeds \cup {NoSeed},
     log_level : InputLogLevels, output_file : OutputFiles]

Start(c) ==
    /\ cfg = c
    /\ pc = "validate"
    /\ status = "Running"
    /\ sink = "none"
    /\ buffer = <<>>
    /\ dest = <<>>
    /\ origin = <<>>
    /\ rng = [state |-> 0, cursor |-> 0]
    /\ seedings = 0
    /\ seed_used = NoSeed
    /\ draws = <<>>
    /\ diag = <<>>
    /\ node_id = 0
    /\ i = 0
    /\ edge_count = 0
    /\ k = 0
    /\ phases = <<>>

Init == (\E c \in Configs : Start(c)) /\ prev = NoPrev

\* --------------------------------------------------------------- actions
\* A variant of the check that is off by one.
InsufficientEdgesOffByOne(c) == c.ensure_strongly_connected /\ c.edge_count + 1 < c.node_count
InsufficientEdges(c) == c.ensure_strongly_connected /\ c.edge_count < c.node_count

Validate ==
    /\ pc = "validate"
    /\ IF InsufficientEdges(cfg)
       THEN /\ Terminate("ConfigError", buffer, dest, diag)
            /\ UNCHANGED phases
       ELSE /\ pc' = "create"
            /\ phases' = Append(phases, "Validated")
            /\ UNCHANGED <<status, buffer, dest, diag>>
    /\ UNCHANGED <<cfg, sink, origin, rng, seedings, seed_used, draws, node_id, i,
                   edge_count, k, prev>>

CreateOutput ==
    /\ pc = "create"
    /\ IF cfg.output_file = "-"
       THEN /\ sink' = "stdout"
            /\ pc' = "seed"
            /\ UNCHANGED <<status, buffer, dest, diag>>
       ELSE \/ /\ sink' = "file"
               /\ pc' = "seed"
               /\ dest' = <<>>
               /\ UNCHANGED <<status, buffer, diag>>
            \/ /\ Terminate("IoError", buffer, dest, diag)
               /\ UNCHANGED sink
    /\ UNCHANGED <<cfg, origin, rng, seedings, seed_used, draws, node_id, i,
                   edge_count, k, phases, prev>>

\* A variant that always seeds from entropy.
SeedChoicesEntropy(c) == Seeds
\* cli.seed.unwrap_or_else(rand::random)
SeedChoices(c) == IF c.seed = NoSeed THEN Seeds ELSE {c.seed}

SeedRng ==
    /\ pc = "seed"
    /\ \E s \in SeedChoices(cfg) :
          /\ rng' = SeedFromU64(s)
          /\ seed_used' = s
    /\ seedings' = seedings + 1
    /\ pc' = "header"
    /\ UNCHANGED <<cfg, status, sink, buffer, dest, origin, draws, diag, node_id, i,
                   edge_count, k, phases, prev>>

WriteHeader ==
    /\ pc = "header"
    /\ LET dg == Logged(diag, <<"Writing header">>)
       IN \E w \in WriteOutcomes(buffer, dest, HeaderLine) :
             IF w.ok
             THEN /\ buffer' = w.buffer
                  /\ dest' = w.dest
                  /\ origin' = Append(origin, "header")
                  /\ diag' = Logged(dg, <<"Writing nodes">>)
                  /\ node_id' = 1
                  /\ pc' = "nodes"
                  /\ phases' = Append(phases, "HeaderWritten")
                  /\ UNCHANGED status
             ELSE /\ Terminate("IoError", w.buffer, w.dest, dg)
                  /\ UNCHANGED <<origin, node_id, phases>>
    /\ UNCHANGED <<cfg, sink, rng, seedings, seed_used, draws, i, edge_count, k, prev>>

WriteNode ==
    /\ pc = "nodes"
    /\ node_id <= cfg.node_count
    /\ LET sequence == random_dna_string(rng)
       IN /\ rng' = sequence.rng
          /\ draws' = draws \o sequence.draws
          /\ \E w \in WriteOutcomes(buffer, dest, NodeLine(node_id, sequence.val)) :
                IF w.ok
                THEN /\ buffer' = w.buffer
                     /\ dest' = w.dest
                     /\ origin' = Append(origin, "node")
                     /\ node_id' = node_id + 1
                     /\ UNCHANGED <<pc, status, diag>>
                ELSE /\ Terminate("IoError", w.buffer, w.dest, diag)
                     /\ UNCHANGED <<origin, node_id>>
    /\ UNCHANGED <<cfg, sink, seedings, seed_used, i, edge_count, k, phases, prev>>

BeginEdges ==
    /\ pc = "nodes"
    /\ ~(node_id <= cfg.node_count)
    /\ phases' = Append(phases, "NodesWritten")
    /\ IF cfg.ensure_strongly_connected
       THEN /\ diag' = Logged(diag, <<"Writing edges",
                   "Ensuring strong connectivity by creating a cycle through all nodes">>)
            /\ i' = 1
            /\ pc' = "cycle"
            /\ UNCHANGED edge_count
       ELSE /\ diag' = Logged(diag, <<"Writing edges">>)
            /\ edge_count' = cfg.edge_count
            /\ pc' = "uniform"
            /\ UNCHANGED i
    /\ UNCHANGED <<cfg, status, sink, buffer, dest, origin, rng, seedings, seed_used,
                   draws, node_id, k, prev>>

CycleEdge ==
    /\ pc = "cycle"
    /\ i < cfg.node_count
    /\ \E w \in WriteOutcomes(buffer, dest, CycleEdgeLine(i)) :
          IF w.ok
          THEN /\ buffer' = w.buffer
               /\ dest' = w.dest
               /\ origin' = Append(origin, "cycle")
               /\ i' = i + 1
               /\ UNCHANGED <<pc, status, diag>>
          ELSE /\ Terminate("IoError", w.buffer, w.dest, diag)
               /\ UNCHANGED <<origin, i>>
    /\ UNCHANGED <<cfg, sink, rng, seedings, seed_used, draws, node_id, edge_count, k,
                   phases, prev>>

CycleClose ==
    /\ pc = "cycle"
    /\ ~(i < cfg.node_count)
    /\ \E w \in WriteOutcomes(buffer, dest, CycleCloseLine(cfg.node_count)) :
          IF w.ok
          THEN /\ buffer' = w.buffer
               /\ dest' = w.dest
               /\ origin' = Append(origin, "cycle")
               /\ diag' = Logged(diag, <<"Writing remaining edges">>)
               /\ edge_count' = cfg.edge_count - cfg.node_count
               /\ pc' = "uniform"
               /\ phases' = Append(phases, "CycleWritten")
               /\ UNCHANGED status
          ELSE /\ Terminate("IoError", w.buffer, w.dest, diag)
               /\ UNCHANGED <<origin, edge_count, phases>>
    /\ UNCHANGED <<cfg, sink, rng, seedings, seed_used, draws, node_id, i, k, prev>>

\* Uniform::new_inclusive(1, node_count).unwrap(): Err(EmptyRange) when 1 > node_count
MakeRandomNode ==
    /\ pc = "uniform"
    /\ IF 1 <= cfg.node_count
       THEN /\ pc' = "random"
            /\ k' = 0
            /\ UNCHANGED <<status, buffer, dest, diag>>
       ELSE /\ Terminate("Panic", buffer, dest, diag)
            /\ UNCHANGED k
    /\ UNCHANGED <<cfg, sink, origin, rng, seedings, seed_used, draws, node_id, i,
                   edge_count, phases, prev>>

RandomEdge ==
    /\ pc = "random"
    /\ k < edge_count
    /\ LET e == RandomEdgeDraws(rng, cfg.node_count)
       IN /\ rng' = e.rng
          /\ draws' = draws \o e.draws
          /\ \E w \in WriteOutcomes(buffer, dest, EdgeLine(e.from, e.from_sign, e.to, e.to_sign)) :
                IF w.ok
                THEN /\ buffer' = w.buffer
                     /\ dest' = w.dest
                     /\ origin' = Append(origin, "random")
                     /\ k' = k + 1
                     /\ UNCHANGED <<pc, status, diag>>
                ELSE /\ Terminate("IoError", w.buffer, w.dest, diag)
                     /\ UNCHANGED <<origin, k>>
    /\ UNCHANGED <<cfg, sink, seedings, seed_used, node_id, i, edge_count, phases, prev>>

Return ==
    /\ pc = "random"
    /\ ~(k < edge_count)
    /\ phases' = phases \o <<"RandomEdgesWritten", "Done">>
    /\ Terminate("Done", buffer, dest, diag)
    /\ UNCHANGED <<cfg, sink, origin, rng, seedings, seed_used, draws, node_id, i,
                   edge_count, k, prev>>

Next ==
    \/ Validate
    \/ CreateOutput
    \/ SeedRng
    \/ WriteHeader
    \/ WriteNode
    \/ BeginEdges
    \/ CycleEdge
    \/ CycleClose
    \/ MakeRandomNode
    \/ RandomEdge
    \/ Return

Spec == Init /\ [][Next]_vars

\* Everything the run handed to the sink, in order.
Emitted == dest \o buffer

\* ------------------------------------------------------- repeated runs
\* The program is run a second time with the same node count, edge count,
\* connectivity flag and seed argument, and any log level and destination.
Rerun ==
    /\ pc = "exit"
    /\ prev.status = "none"
    /\ \E l \in InputLogLevels, f \in OutputFiles :
          /\ cfg' = [cfg EXCEPT !.log_level = l, !.output_file = f]
          /\ prev' = [status |-> status, emitted |-> Emitted,
                      varied |-> (l # cfg.log_level /\ f # cfg.output_file)]
    /\ pc' = "validate"
    /\ status' = "Running"
    /\ sink' = "none"
    /\ buffer' = <<>>
    /\ dest' = <<>>
    /\ origin' = <<>>
    /\ rng' = [state |-> 0, cursor |-> 0]
    /\ seedings' = 0
    /\ seed_used' = NoSeed
    /\ draws' = <<>>
    /\ diag' = <<>>
    /\ node_id' = 0
    /\ i' = 0
    /\ edge_count' = 0
    /\ k' = 0
    /\ phases' = <<>>

NextRepeat ==
    \/ Validate
    \/ CreateOutput
    \/ SeedRng
    \/ WriteHeader
    \/ WriteNode
    \/ BeginEdges
    \/ CycleEdge
    \/ CycleClose
    \/ MakeRandomNode
    \/ RandomEdge
    \/ Return
    \/ Rerun

SpecRepeat == Init /\ [][NextRepeat]_vars

\* ------------------------------------------------------------- helpers
Range(s) == {s[j] : j \in 1..Len(s)}

IsPrefix(a, b) == Len(a) <= Len(b) /\ \A j \in 1..Len(a) : a[j] = b[j]

CountKind(s, t) == Cardinality({j \in 1..Len(s) : s[j][1] = t})

CountOrigin(t) == Cardinality({j \in 1..Len(origin) : origin[j] = t})

\* The accepted lines that statement `t` emitted, in order.
RECURSIVE LinesBy(_, _)
LinesBy(t, n) ==
    IF n = 0 THEN <<>>
    ELSE LinesBy(t, n - 1) \o (IF origin[n] = t THEN <<Emitted[n]>> ELSE <<>>)

Failed == status \in {"ConfigError", "IoError", "Panic"}

\* The random-edge budget the specification gives a configuration.
Budget(c) == IF c.ensure_strongly_connected THEN c.edge_count - c.node_count ELSE c.edge_count

PrefixComparable(a, b) == IsPrefix(a, b) \/ IsPrefix(b, a)

\* The generator r advanced n times (by halves, r evaluated before descending).
RECURSIVE AdvanceN(_, _)
AdvanceN(r, n) ==
    IF n = 0 \/ r.cursor < 0 THEN r
    ELSE IF n = 1 THEN Advance(r)
    ELSE AdvanceN(AdvanceN(r, n \div 2), n - (n \div 2))

\* The cycle 1 -> 2 -> ... -> n -> 1 as edge lines; no line at all for n = 0.
ExpectedCycle(n) ==
    [j \in 1..n |-> <<"L", j, "+", IF j = n THEN 1 ELSE j + 1, "+", "0M">>]

\* The phases a complete run goes through.
PhaseOrder(c) ==
    IF c.ensure_strongly_connected
    THEN <<"Validated", "HeaderWritten", "NodesWritten", "CycleWritten",
           "RandomEdgesWritten", "Done">>
    ELSE <<"Validated", "HeaderWritten", "NodesWritten", "RandomEdgesWritten", "Done">>

KindRank(line) == CASE line[1] = "H" -> 0 [] line[1] = "S" -> 1 [] line[1] = "L" -> 2

RECURSIVE NodeDrawTotal(_)
NodeDrawTotal(n) ==
    IF n = 0 THEN 0
    ELSE NodeDrawTotal(n - 1) + (IF Emitted[n][1] = "S" THEN 1 + Len(Emitted[n][3]) ELSE 0)

\* The position in draws just after n well-formed node groups (one length
\* draw, then that many symbol draws) starting at pos; 0 when malformed.
RECURSIVE AfterNodeDraws(_, _)
AfterNodeDraws(pos, n) ==
    IF n = 0 THEN pos
    ELSE IF pos > Len(draws) \/ draws[pos].kind # "length" THEN 0
    ELSE LET l == draws[pos].val
         IN IF \/ l \notin MinSeqLen..MaxSeqLen
               \/ pos + l > Len(draws)
               \/ \E j \in (pos + 1)..(pos + l) :
                     draws[j].kind # "symbol" \/ draws[j].val \notin 1..Len(nucleotides)
            THEN 0
            ELSE AfterNodeDraws(pos + l + 1, n - 1)

\* ----------------------------------------------------------------- claims

\* C1: every run of an accepted configuration (node_count = 0 included) that
\* meets no I/O error completes, and has emitted exactly 1 header line,
\* node_count node lines and edge_count edge lines; in strongly-connected
\* mode the random phase emitted edge_count - node_count of them.
C1_CardinalityOfCompletedRun ==
    (pc = "exit" /\ status \notin {"ConfigError", "IoError"}) =>
        /\ status = "Done"
        /\ CountKind(Emitted, "H") = 1
        /\ CountKind(Emitted, "S") = cfg.node_count
        /\ CountKind(Emitted, "L") = cfg.edge_count
        /\ cfg.ensure_strongly_connected =>
              CountOrigin("random") = cfg.edge_count - cfg.node_count

\* C2: with ensure_strongly_connected and edge_count < node_count the run ends
\* in the configuration error at the first step, before the destination is
\* created or opened, before any line is written and before any random draw.
C2_RejectedBeforeAnyOutput ==
    (cfg.ensure_strongly_connected /\ cfg.edge_count < cfg.node_count /\ pc # "validate") =>
        /\ status = "ConfigError"
        /\ pc = "exit"
        /\ sink = "none"
        /\ dest = <<>>
        /\ buffer = <<>>
        /\ origin = <<>>
        /\ seedings = 0
        /\ draws = <<>>
        /\ rng.cursor = 0
        /\ phases = <<>>

C2_Witness ==
    /\ cfg.ensure_strongly_connected
    /\ cfg.edge_count < cfg.node_count
    /\ status = "ConfigError"
    /\ pc = "exit"

\* C3: in strongly-connected mode the cycle phase emits exactly the node_count
\* lines 1->2, ..., node_count->1 with "+" on both ends and overlap 0M, one
\* self-loop for node_count = 1 and no line at all for node_count = 0.
C3_CyclePhaseLines ==
    /\ IsPrefix(LinesBy("cycle", Len(origin)), ExpectedCycle(cfg.node_count))
    /\ "CycleWritten" \in Range(phases) =>
          LinesBy("cycle", Len(origin)) = ExpectedCycle(cfg.node_count)

\* C4: with node_count = 0 and edge_count = 0 the run is accepted, reaches
\* Done, and its output is exactly the header line.
C4_EmptyGraphIsHeaderOnly ==
    (cfg.node_count = 0 /\ cfg.edge_count = 0 /\ pc = "exit" /\ status # "IoError") =>
        /\ status = "Done"
        /\ Emitted = <<HeaderLine>>

\* C5: with node_count = 0 and edge_count > 0 the run fails with the
\* configuration error, before any draw and with no line written, the header
\* included.
C5_EmptyNodeSetRejected ==
    (cfg.node_count = 0 /\ cfg.edge_count > 0 /\ pc = "exit" /\ status # "IoError") =>
        /\ status = "ConfigError"
        /\ Emitted = <<>>
        /\ draws = <<>>
        /\ seedings = 0

\* C6: two runs given the same seed and the same node count, edge count and
\* connectivity flag emit the same lines whatever the log level and the
\* destination (equal when both complete, one a prefix of the other when a
\* run is cut short); the generator is seeded once, with the given seed, and its state
\* is always the seeded state advanced once per draw.
C6_Determinism ==
    /\ seedings <= 1
    /\ (rng.cursor > 0 \/ origin # <<>>) => seedings = 1
    /\ seedings = 1 =>
          /\ rng = AdvanceN(SeedFromU64(seed_used), rng.cursor)
          /\ cfg.seed # NoSeed => seed_used = cfg.seed
    /\ (prev.status # "none" /\ cfg.seed # NoSeed) =>
          /\ PrefixComparable(Emitted, prev.emitted)
          /\ (status = "Done" /\ prev.status = "Done") => Emitted = prev.emitted

C6_Witness ==
    /\ prev.status = "Done"
    /\ prev.varied
    /\ status = "Done"
    /\ buffer = <<>>
    /\ cfg.seed # NoSeed
    /\ cfg.node_count = MaxNodes
    /\ CountOrigin("random") > 0

\* C7: the run goes through Validated, HeaderWritten, NodesWritten,
\* CycleWritten (exactly when ensure_strongly_connected), RandomEdgesWritten,
\* Done in that order and never back; the header is the first line, node
\* lines precede edge lines and carry 1, 2, ... in ascending order, each once,
\* and cycle edge lines precede random edge lines.
C7_ForwardPhasesAndLineOrder ==
    /\ IsPrefix(phases, PhaseOrder(cfg))
    /\ status = "Done" => phases = PhaseOrder(cfg)
    /\ "CycleWritten" \in Range(phases) => cfg.ensure_strongly_connected
    /\ CountOrigin("cycle") > 0 => cfg.ensure_strongly_connected
    /\ Len(origin) = Len(Emitted)
    /\ "HeaderWritten" \in Range(phases) <=> Len(Emitted) >= 1
    /\ Emitted # <<>> => Emitted[1] = HeaderLine
    /\ CountKind(Emitted, "H") <= 1
    /\ \A a, b \in 1..Len(Emitted) : a < b => KindRank(Emitted[a]) <= KindRank(Emitted[b])
    /\ \A j \in 1..Len(Emitted) :
          /\ Emitted[j][1] = "S" => Emitted[j][2] = j - 1 /\ Emitted[j][2] \in 1..cfg.node_count
          /\ origin[j] = "header" <=> Emitted[j][1] = "H"
          /\ origin[j] = "node" <=> Emitted[j][1] = "S"
          /\ origin[j] \in {"cycle", "random"} <=> Emitted[j][1] = "L"
    /\ "NodesWritten" \in Range(phases) => CountKind(Emitted, "S") = cfg.node_count
    /\ CountKind(Emitted, "L") > 0 => "NodesWritten" \in Range(phases)
    /\ \A a, b \in 1..Len(origin) : a < b => ~(origin[a] = "random" /\ origin[b] = "cycle")
    /\ CountOrigin("random") > 0 /\ cfg.ensure_strongly_connected =>
          "CycleWritten" \in Range(phases)

C7_Witness ==
    /\ status = "Done"
    /\ cfg.ensure_strongly_connected
    /\ cfg.node_count = MaxNodes
    /\ CountOrigin("cycle") = MaxNodes
    /\ CountOrigin("random") > 0

C8_DrawsWellFormed ==
    LET c == Cardinality({j \in 1..Len(draws) : draws[j].kind = "length"})
        p == AfterNodeDraws(1, c)
        rest == Len(draws) - p + 1
        g == rest \div 4
    IN /\ rng.cursor = Len(draws)
       /\ p > 0
       /\ rest % 4 = 0
       /\ \A j \in 0..(rest - 1) :
             /\ draws[p + j].kind = <<"from", "to", "from_sign", "to_sign">>[(j % 4) + 1]
             /\ draws[p + j].val \in (IF j % 4 < 2 THEN 1..cfg.node_count ELSE 1..Len(signs))
       /\ c <= cfg.node_count
       /\ g > 0 => c = cfg.node_count
       /\ CountKind(Emitted, "S") <= c /\ c <= CountKind(Emitted, "S") + 1
       /\ status # "IoError" => c = CountKind(Emitted, "S")
       /\ CountOrigin("random") <= g /\ g <= CountOrigin("random") + 1
       /\ status # "IoError" => g = CountOrigin("random")
       /\ status = "Done" =>
             Len(draws) = NodeDrawTotal(Len(Emitted)) + 4 * Budget(cfg)

C8_DrawsStep ==
    /\ rng'.cursor >= rng.cursor
    /\ IsPrefix(draws, draws')
    /\ pc = "cycle" => draws' = draws /\ rng' = rng

\* C8: the stream is consumed per node, in ascending id order, by one length
\* draw and then exactly that many symbol draws; the cycle phase draws
\* nothing; each random edge draws from, to, from_sign, to_sign in that order;
\* the cursor only advances, and a completed run has made the sum over the
\* nodes of (1 + length) plus 4 times the random-edge budget draws.
C8_DrawOrderAndAmount == []C8_DrawsWellFormed /\ [][C8_DrawsStep]_vars

C8_Witness ==
    /\ status = "Done"
    /\ cfg.ensure_strongly_connected
    /\ cfg.node_count = MaxNodes
    /\ CountOrigin("random") > 0
    /\ Len(draws) > 4

C9_FailedIsFinal == Failed => pc = "exit" /\ "Done" \notin Range(phases)

C9_FailureStep ==
    /\ Failed => UNCHANGED vars
    /\ (~Failed /\ Failed') =>
          /\ Emitted' = Emitted
          /\ IsPrefix(dest, dest')
          /\ origin' = origin

C10_EdgeLinesInRange ==
    \A j \in 1..Len(Emitted) :
        Emitted[j][1] = "L" =>
            /\ Emitted[j][2] \in 1..cfg.node_count
            /\ Emitted[j][4] \in 1..cfg.node_count
            /\ Emitted[j][3] \in {"+", "-"}
            /\ Emitted[j][5] \in {"+", "-"}
            /\ Emitted[j][6] = "0M"

====
